---------------------------- MODULE Spec2Model ----------------------------
(***************************************************************************)
(* Model of the camera GIF builder: the ping-pong build pipeline           *)
(* (buildGifPingPong), the configuration getters it calls, the motion      *)
(* search (sadAt and its scan loop), the pad-and-crop geometry and the     *)
(* auto-border detector.                                                   *)
(*                                                                         *)
(* Conventions                                                             *)
(*  - Buffers are 1-indexed sequences of bytes; byte k of a JavaScript     *)
(*    buffer is element k+1.                                               *)
(*  - cropPercent is held in hundredths (5 stands for 0.05, 30 for 0.30);  *)
(*    products with it and with the scale factors targetW/workW,           *)
(*    targetH/workH are computed exactly, as quotients of integers.        *)
(*  - sharp and gif-encoder-2 are libraries outside the repository: an     *)
(*    operation of theirs is modelled by its documented effect, applied    *)
(*    in the order the code calls it.                                      *)
(***************************************************************************)
EXTENDS Integers, Sequences, FiniteSets, TLC

VARIABLES
    ambient,          \* config.json and process.env as they are right now
    cfgEdits,         \* how often the ambient configuration has been edited
    call,             \* the arguments of the invocation: imageBuffers, opts
    pc,               \* where the invocation of buildGifPingPong stands
    loc,              \* the local constants and variables of the invocation
    preFramesPng,     \* the four normalized frames
    processedFrames,  \* the frames after pad-and-crop (and auto-border crop)
    encoder,          \* the frames the GIF encoder has been handed
    outcome,          \* what the invocation returned or threw
    effects,          \* the kinds of work the invocation has performed
    snapshot,         \* the configuration as resolved when the call began
    gray,             \* motion search: reference frame, candidate frame, radius
    best,             \* motion search: the offset chosen
    now,              \* listener: Date.now(), in ticks
    groups,           \* listener: the Map of the groups being collected
    builds,           \* listener: the invocations of tryProcessGroup in flight
    results,          \* listener: the entries appended to results.log
    events,           \* listener: how many create events of the cameras were delivered
    received,         \* listener: the capture records handed to assignToGroup
    started           \* listener: the arguments of each buildGifPingPong call

\* The state of the listener (index.js).
listenerVars == <<now, groups, builds, results, events, received, started>>

\* The state of one invocation of buildGifPingPong, of the configuration and
\* of the motion search.
builderVars == <<ambient, cfgEdits, call, pc, loc, preFramesPng, processedFrames,
                 encoder, outcome, effects, snapshot, gray, best>>

vars == <<ambient, cfgEdits, call, pc, loc, preFramesPng, processedFrames,
          encoder, outcome, effects, snapshot, gray, best,
          now, groups, builds, results, events, received, started>>

\* The listener before main() has subscribed.
ListenerOff ==
    /\ now = 0
    /\ groups = <<>>
    /\ builds = {}
    /\ results = <<>>
    /\ events = 0
    /\ received = {}
    /\ started = <<>>

(***************************************************************************)
(* Arithmetic of the JavaScript Math functions on exact quotients n/d,     *)
(* d > 0.                                                                  *)
(***************************************************************************)
Max(a, b) == IF a >= b THEN a ELSE b

Min(a, b) == IF a <= b THEN a ELSE b

Abs(a) == IF a >= 0 THEN a ELSE -a

\* Math.round(n/d): the nearest integer, a half rounded towards +Infinity.
Round(n, d) == (2 * n + d) \div (2 * d)

\* Math.ceil(n/d)
Ceil(n, d) == -((-n) \div d)

\* Math.floor(n/d)
Floor(n, d) == n \div d

(***************************************************************************)
(* Configuration (config.js).  A value of config.json or of process.env    *)
(* is a tagged record; cfg.key of a missing key, and of a missing or       *)
(* unreadable file (readJson returns {}), is undefined.                    *)
(***************************************************************************)
Undefined == [t |-> "undefined"]

Num(n) == [t |-> "number", v |-> n]

Bool(b) == [t |-> "boolean", v |-> b]

Str(s) == [t |-> "string", v |-> s]

NaN == [nan |-> TRUE]

Null == [t |-> "null"]

\* The strings of the modelled files and environments that JavaScript reads as
\* a number, with that number ("" reads as 0); every other string reads as NaN.
\* For cropPercent a numeral counts hundredths: "20" stands for "0.20".
Numerals ==
    [s \in {"", "0", "1", "4", "6", "8", "20", "60", "90", "120"} |->
        CASE s = "" -> 0 [] s = "0" -> 0 [] s = "1" -> 1 [] s = "4" -> 4
          [] s = "6" -> 6 [] s = "8" -> 8 [] s = "20" -> 20 [] s = "60" -> 60
          [] s = "90" -> 90 [] OTHER -> 120]

\* Number(x) of JavaScript.
Number(x) ==
    CASE x.t = "undefined" -> NaN
      [] x.t = "null" -> [nan |-> FALSE, v |-> 0]
      [] x.t = "number" -> [nan |-> FALSE, v |-> x.v]
      [] x.t = "boolean" -> [nan |-> FALSE, v |-> IF x.v THEN 1 ELSE 0]
      [] OTHER -> IF x.v \in DOMAIN Numerals
                    THEN [nan |-> FALSE, v |-> Numerals[x.v]]
                    ELSE NaN

\* !Number.isNaN(n) && lo <= n && n <= hi
InRange(n, lo, hi) == ~n.nan /\ n.v >= lo /\ n.v <= hi

EnvIs(a, name, s) == a.env[name] = Str(s)

getFrameDelayMs(a) ==
    LET fromCfg == Number(a.file.frameDelayMs)
        fromEnv == Number(a.env.FRAME_DELAY_MS)
    IN  IF ~fromCfg.nan /\ fromCfg.v > 0 THEN fromCfg.v
        ELSE IF ~fromEnv.nan /\ fromEnv.v > 0 THEN fromEnv.v
        ELSE 120

getStabilizeEnabled(a) ==
    LET v == a.file.stabilize
    IN  IF v.t = "boolean" THEN v.v
        ELSE IF EnvIs(a, "STABILIZE", "0") \/ EnvIs(a, "STABILIZE", "false") THEN FALSE
        ELSE IF EnvIs(a, "STABILIZE", "1") \/ EnvIs(a, "STABILIZE", "true") THEN TRUE
        ELSE TRUE

\* Lines 35-43 with the environment asked before the file.
getMaxShiftPxEnvFirst(a) ==
    LET v == Number(a.file.maxShiftPx)
        e == Number(a.env.MAX_SHIFT_PX)
    IN  IF InRange(e, 0, 50) THEN e.v
        ELSE IF InRange(v, 0, 50) THEN v.v
        ELSE 6

getMaxShiftPx(a) ==
    LET v == Number(a.file.maxShiftPx)
        e == Number(a.env.MAX_SHIFT_PX)
    IN  IF InRange(v, 0, 50) THEN v.v
        ELSE IF InRange(e, 0, 50) THEN e.v
        ELSE 6

getAutoBorderMarginPx(a) ==
    LET v == Number(a.file.autoBorderMarginPx)
        e == Number(a.env.AUTO_BORDER_MARGIN_PX)
    IN  IF InRange(v, 0, 20) THEN v.v
        ELSE IF InRange(e, 0, 20) THEN e.v
        ELSE 0

\* In hundredths: the range 0..0.3 is 0..30 and the default 0.05 is 5.
getCropPercent(a) ==
    LET v == Number(a.file.cropPercent)
        e == Number(a.env.CROP_PERCENT)
    IN  IF InRange(v, 0, 30) THEN v.v
        ELSE IF InRange(e, 0, 30) THEN e.v
        ELSE 5

getAutoBorderDetect(a) ==
    LET v == a.file.autoBorderDetect
    IN  IF v.t = "boolean" THEN v.v
        ELSE IF EnvIs(a, "AUTO_BORDER_DETECT", "0") \/ EnvIs(a, "AUTO_BORDER_DETECT", "false")
          THEN FALSE
        ELSE IF EnvIs(a, "AUTO_BORDER_DETECT", "1") \/ EnvIs(a, "AUTO_BORDER_DETECT", "true")
          THEN TRUE
        ELSE TRUE

getAlphaThreshold(a) ==
    LET v == Number(a.file.alphaThreshold)
        e == Number(a.env.ALPHA_THRESHOLD)
    IN  IF InRange(v, 0, 255) THEN v.v
        ELSE IF InRange(e, 0, 255) THEN e.v
        ELSE 8

getBlackThreshold(a) ==
    LET v == Number(a.file.blackThreshold)
        e == Number(a.env.BLACK_THRESHOLD)
    IN  IF InRange(v, 0, 255) THEN v.v
        ELSE IF InRange(e, 0, 255) THEN e.v
        ELSE 8

\* config.json with no keys, and an environment that sets none of the variables.
NoFile ==
    [frameDelayMs |-> Undefined, stabilize |-> Undefined, maxShiftPx |-> Undefined,
     cropPercent |-> Undefined, autoBorderDetect |-> Undefined,
     alphaThreshold |-> Undefined, blackThreshold |-> Undefined,
     autoBorderMarginPx |-> Undefined]

NoEnv ==
    [FRAME_DELAY_MS |-> Undefined, STABILIZE |-> Undefined, MAX_SHIFT_PX |-> Undefined,
     CROP_PERCENT |-> Undefined, AUTO_BORDER_DETECT |-> Undefined,
     ALPHA_THRESHOLD |-> Undefined, BLACK_THRESHOLD |-> Undefined,
     AUTO_BORDER_MARGIN_PX |-> Undefined]

\* Every value the getters resolve from one state of the file and environment.
Resolve(a) ==
    [frameDelayMs |-> getFrameDelayMs(a), stabilize |-> getStabilizeEnabled(a),
     maxShift |-> getMaxShiftPx(a), cropPercent |-> getCropPercent(a),
     autoBorderDetect |-> getAutoBorderDetect(a), alphaT |-> getAlphaThreshold(a),
     blackT |-> getBlackThreshold(a), margin |-> getAutoBorderMarginPx(a)]

(***************************************************************************)
(* Raw RGBA images.  An image is [width, height, data]: data holds         *)
(* width * height * 4 bytes, row by row, four bytes (r, g, b, a) a pixel.  *)
(***************************************************************************)
\* The byte at JavaScript index i of a buffer; undefined (here -1) outside it.
At(data, i) == IF (i + 1) \in DOMAIN data THEN data[i + 1] ELSE -1

\* The n bytes f[1], ..., f[n] as a buffer.
Raw(f, n) == SubSeq(f, 1, n)

\* rotate(180): pixel p of the result is pixel n-1-p of the source.
Rotate180(img) ==
    LET n == img.width * img.height
    IN  [img EXCEPT !.data =
            Raw([k \in 1..(n * 4) |->
                   img.data[(n - 1 - ((k - 1) \div 4)) * 4 + ((k - 1) % 4) + 1]],
                n * 4)]

\* sharp's extend(): a canvas grown by the four extents, the new pixels
\* transparent black (background r 0, g 0, b 0, alpha 0).
Extend(img, top, left, right, bottom) ==
    LET w == img.width + left + right
        h == img.height + top + bottom
    IN  [width |-> w, height |-> h,
         data |-> Raw([k \in 1..(w * h * 4) |->
                         LET x == ((k - 1) \div 4) % w
                             y == ((k - 1) \div 4) \div w
                         IN  IF x >= left /\ x < left + img.width
                                /\ y >= top /\ y < top + img.height
                               THEN img.data[((y - top) * img.width + (x - left)) * 4
                                              + ((k - 1) % 4) + 1]
                               ELSE 0],
                      w * h * 4)]

\* Whether sharp accepts extract({left, top, width, height}) on a canvas of
\* w x h; it throws "bad extract area" otherwise.
ExtractFits(w, h, left, top, width, height) ==
    /\ left >= 0 /\ top >= 0 /\ width > 0 /\ height > 0
    /\ left + width <= w
    /\ top + height <= h

\* sharp's extract() followed by raw().ensureAlpha().toBuffer({resolveWithObject}).
Extract(img, left, top, width, height) ==
    IF ~ExtractFits(img.width, img.height, left, top, width, height)
      THEN [ok |-> FALSE]
      ELSE [ok |-> TRUE,
            data |-> Raw([k \in 1..(width * height * 4) |->
                            LET x == ((k - 1) \div 4) % width
                                y == ((k - 1) \div 4) \div width
                            IN  img.data[((y + top) * img.width + (x + left)) * 4
                                          + ((k - 1) % 4) + 1]],
                         width * height * 4),
            info |-> [width |-> width, height |-> height, channels |-> 4]]

(***************************************************************************)
(* Stabilization geometry (buildGifPingPong, lines 40-119).                *)
(***************************************************************************)
workW == 320

MinWorkH == 120

MinCropSize == 16

\* workH = Math.max(120, Math.round((workW / targetW) * targetH))
workH(targetW, targetH) == Max(MinWorkH, Round(workW * targetH, targetW))

ZeroOffsets == [i \in 0..3 |-> [dx |-> 0, dy |-> 0]]

\* Lines 93-95: one work-resolution offset scaled to the target resolution.
ScaleOffset(o, targetW, targetH) ==
    [dx |-> Round(o.dx * targetW, workW),
     dy |-> Round(o.dy * targetH, workH(targetW, targetH))]

MaxOver(f) == CHOOSE m \in {f[i] : i \in DOMAIN f} : \A i \in DOMAIN f : f[i] <= m

\* Lines 91-102: padX and padY.
PadX(offsets, maxShift, targetW) ==
    Max(Ceil(maxShift * targetW, workW),
        Max(0, MaxOver([i \in 0..3 |-> Abs(offsets[i].dx)])))

PadY(offsets, maxShift, targetW, targetH) ==
    Max(Ceil(maxShift * targetH, workH(targetW, targetH)),
        Max(0, MaxOver([i \in 0..3 |-> Abs(offsets[i].dy)])))

\* Lines 107-108.
FinalCropPx(targetW, targetH, cropPercent, stabilize, padX, padY) ==
    LET baseCropPx == Round(Min(targetW, targetH) * cropPercent, 100)
    IN  Max(0, baseCropPx) + (IF stabilize THEN Max(padX, padY) ELSE 0)

\* Lines 112-113 without the minimum of lines 114-119.
CroppedSizeUnclamped(targetW, targetH, finalCropPx) ==
    [w |-> targetW - 2 * finalCropPx, h |-> targetH - 2 * finalCropPx]

\* Lines 112-119: the size of the cropped canvas, raised to 16 when either
\* axis falls below it.
CroppedSize(targetW, targetH, finalCropPx) ==
    LET cw == targetW - 2 * finalCropPx
        ch == targetH - 2 * finalCropPx
    IN  IF cw < MinCropSize \/ ch < MinCropSize
          THEN [w |-> Max(MinCropSize, cw), h |-> Max(MinCropSize, ch)]
          ELSE [w |-> cw, h |-> ch]

\* Lines 133-138: the extents of the extended canvas of a frame shifted by (dx, dy).
Extents(padX, padY, dx, dy) ==
    [left |-> Max(0, padX + dx), top |-> Max(0, padY + dy),
     right |-> Max(0, padX - dx), bottom |-> Max(0, padY - dy)]

\* Lines 121-148: what the sharp pipeline of stabilizeAndCrop resolves to, for
\* the decoded frame img and the geometry g = [stabilize, padX, padY,
\* finalCropPx, croppedW, croppedH].
stabilizeAndCrop(img, dx, dy, g) ==
    IF ~g.stabilize
      THEN Extract(img, g.finalCropPx, g.finalCropPx, g.croppedW, g.croppedH)
      ELSE LET e == Extents(g.padX, g.padY, dx, dy)
           IN  Extract(Extend(img, e.top, e.left, e.right, e.bottom),
                       g.finalCropPx, g.finalCropPx, g.croppedW, g.croppedH)

(***************************************************************************)
(* Auto-border detection (buildGifPingPong, lines 158-248).                *)
(***************************************************************************)
MinBorderSize == 8

\* Line 177: the pixel whose first byte is at index i is content.
IsContent(data, i, alphaT, blackT) ==
    /\ At(data, i + 3) > alphaT
    /\ \/ At(data, i) > blackT
       \/ At(data, i + 1) > blackT
       \/ At(data, i + 2) > blackT

RowHasContent(data, w, y, alphaT, blackT) ==
    \E x \in 0..(w - 1) : IsContent(data, (y * w + x) * 4, alphaT, blackT)

ColHasContent(data, w, h, x, alphaT, blackT) ==
    \E y \in 0..(h - 1) : IsContent(data, (y * w + x) * 4, alphaT, blackT)

Least(S, none) == IF S = {} THEN none ELSE CHOOSE m \in S : \A n \in S : m <= n

Greatest(S, none) == IF S = {} THEN none ELSE CHOOSE m \in S : \A n \in S : m >= n

\* Lines 170-180: the first row from the top that has content; h when none has.
ScanTop(data, w, h, alphaT, blackT) ==
    Least({y \in 0..(h - 1) : RowHasContent(data, w, y, alphaT, blackT)}, h)

\* Lines 182-192: the first row from the bottom that has content; -1 when none has.
ScanBottom(data, w, h, alphaT, blackT) ==
    Greatest({y \in 0..(h - 1) : RowHasContent(data, w, y, alphaT, blackT)}, -1)

\* Lines 194-204.
ScanLeft(data, w, h, alphaT, blackT) ==
    Least({x \in 0..(w - 1) : ColHasContent(data, w, h, x, alphaT, blackT)}, w)

\* Lines 206-216.
ScanRight(data, w, h, alphaT, blackT) ==
    Greatest({x \in 0..(w - 1) : ColHasContent(data, w, h, x, alphaT, blackT)}, -1)

\* Lines 217-220 with the folds exchanged: the box around the content of any
\* frame instead of the box inside the content of every frame.
CommonBoxUnion(frames, encW, encH, alphaT, blackT) ==
    [maxLeft |-> Max(0, -MaxOver([i \in DOMAIN frames |->
                        -ScanLeft(frames[i].data, encW, encH, alphaT, blackT)])),
     maxTop |-> Max(0, -MaxOver([i \in DOMAIN frames |->
                        -ScanTop(frames[i].data, encW, encH, alphaT, blackT)])),
     minRight |-> Min(encW - 1, MaxOver([i \in DOMAIN frames |->
                        ScanRight(frames[i].data, encW, encH, alphaT, blackT)])),
     minBottom |-> Min(encH - 1, MaxOver([i \in DOMAIN frames |->
                        ScanBottom(frames[i].data, encW, encH, alphaT, blackT)]))]

\* Lines 166-221: the bounds of each frame folded into one box, starting from
\* the whole canvas.
CommonBox(frames, encW, encH, alphaT, blackT) ==
    [maxLeft |-> Max(0, MaxOver([i \in DOMAIN frames |->
                        ScanLeft(frames[i].data, encW, encH, alphaT, blackT)])),
     maxTop |-> Max(0, MaxOver([i \in DOMAIN frames |->
                        ScanTop(frames[i].data, encW, encH, alphaT, blackT)])),
     minRight |-> Min(encW - 1, -MaxOver([i \in DOMAIN frames |->
                        -ScanRight(frames[i].data, encW, encH, alphaT, blackT)])),
     minBottom |-> Min(encH - 1, -MaxOver([i \in DOMAIN frames |->
                        -ScanBottom(frames[i].data, encW, encH, alphaT, blackT)]))]

\* Lines 223-231 without the minimum size of line 231.
CropRectNoMinimum(box, encW, encH, margin) ==
    LET leftI == Max(0, box.maxLeft + margin)
        topI == Max(0, box.maxTop + margin)
        rightI == Min(encW - 1, box.minRight - margin)
        bottomI == Min(encH - 1, box.minBottom - margin)
        cropW == Max(1, rightI - leftI + 1)
        cropH == Max(1, bottomI - topI + 1)
    IN  [leftI |-> leftI, topI |-> topI, rightI |-> rightI, bottomI |-> bottomI,
         cropW |-> cropW, cropH |-> cropH,
         apply |-> /\ box.minRight >= box.maxLeft
                   /\ box.minBottom >= box.maxTop
                   /\ (cropW # encW \/ cropH # encH)]

\* Lines 223-231: the rectangle to crop to, and whether the crop is applied.
CropRect(box, encW, encH, margin) ==
    LET leftI == Max(0, box.maxLeft + margin)
        topI == Max(0, box.maxTop + margin)
        rightI == Min(encW - 1, box.minRight - margin)
        bottomI == Min(encH - 1, box.minBottom - margin)
        cropW == Max(1, rightI - leftI + 1)
        cropH == Max(1, bottomI - topI + 1)
    IN  [leftI |-> leftI, topI |-> topI, rightI |-> rightI, bottomI |-> bottomI,
         cropW |-> cropW, cropH |-> cropH,
         apply |-> /\ box.minRight >= box.maxLeft
                   /\ box.minBottom >= box.maxTop
                   /\ cropW >= MinBorderSize
                   /\ cropH >= MinBorderSize
                   /\ (cropW # encW \/ cropH # encH)]

\* Lines 234-243 with the source rows stepped by the cropped width.
CropFrameWrongStride(frame, w, r) ==
    [data |-> Raw([k \in 1..(r.cropW * r.cropH * 4) |->
                     LET y == (k - 1) \div (r.cropW * 4)
                         j == (k - 1) % (r.cropW * 4)
                         srcStart == ((r.topI + y) * r.cropW + r.leftI) * 4
                     IN  IF (srcStart + j + 1) \in DOMAIN frame.data
                           THEN frame.data[srcStart + j + 1]
                           ELSE 0],
                  r.cropW * r.cropH * 4),
     info |-> [frame.info EXCEPT !.width = r.cropW, !.height = r.cropH]]

\* Lines 234-243: a zero-filled buffer of cropW x cropH pixels, each row copied
\* from the source at (srcY * w + leftI) * 4; Buffer.copy stops at the end of
\* the source.
CropFrame(frame, w, r) ==
    [data |-> Raw([k \in 1..(r.cropW * r.cropH * 4) |->
                     LET y == (k - 1) \div (r.cropW * 4)
                         j == (k - 1) % (r.cropW * 4)
                         srcStart == ((r.topI + y) * w + r.leftI) * 4
                     IN  IF (srcStart + j + 1) \in DOMAIN frame.data
                           THEN frame.data[srcStart + j + 1]
                           ELSE 0],
                  r.cropW * r.cropH * 4),
     info |-> [frame.info EXCEPT !.width = r.cropW, !.height = r.cropH]]

\* Lines 231-246 without line 245: the frames cropped, encW and encH left as
\* they were.
AutoBorderStaleSize(frames, encW, encH, alphaT, blackT, margin) ==
    LET r == CropRect(CommonBox(frames, encW, encH, alphaT, blackT), encW, encH, margin)
    IN  IF r.apply
          THEN [frames |-> [i \in DOMAIN frames |-> CropFrame(frames[i], encW, r)],
                encW |-> encW, encH |-> encH, applied |-> TRUE, rect |-> r]
          ELSE [frames |-> frames, encW |-> encW, encH |-> encH,
                applied |-> FALSE, rect |-> r]

\* Lines 160-248 after the getters: the frames and the canvas size the stage
\* leaves behind.
AutoBorder(frames, encW, encH, alphaT, blackT, margin) ==
    LET r == CropRect(CommonBox(frames, encW, encH, alphaT, blackT), encW, encH, margin)
    IN  IF r.apply
          THEN [frames |-> [i \in DOMAIN frames |-> CropFrame(frames[i], encW, r)],
                encW |-> r.cropW, encH |-> r.cropH, applied |-> TRUE, rect |-> r]
          ELSE [frames |-> frames, encW |-> encW, encH |-> encH,
                applied |-> FALSE, rect |-> r]

(***************************************************************************)
(* Sequence assembly and encoding (buildGifPingPong, lines 250-284).       *)
(***************************************************************************)
\* Line 251 as a bounce that comes back to the first frame.
orderFullBounce == <<0, 1, 2, 3, 2, 1, 0>>

order == <<0, 1, 2, 3, 2, 1>>

\* Lines 259-267: the checks a frame passes before it is handed to the encoder.
FrameError(frame, encW, encH) ==
    IF frame.info.channels # 4 \/ frame.info.width # encW
            \/ frame.info.height # encH THEN "shape"
    ELSE IF Len(frame.data) # encW * encH * 4 THEN "size"
    ELSE "none"

\* Lines 258-276: the loop over the order, up to its first failure.  reject is
\* the number of the addFrame call the encoder rejects (0 for none).
RECURSIVE EncodeFrom(_, _, _, _, _, _)
EncodeFrom(k, added, frames, encW, encH, reject) ==
    IF k > Len(order) THEN [error |-> "none", added |-> added]
    ELSE LET idx == order[k]
             err == FrameError(frames[idx], encW, encH)
         IN  IF err # "none" THEN [error |-> err, added |-> added]
             ELSE IF reject = k THEN [error |-> "addFrame", added |-> added]
             ELSE EncodeFrom(k + 1,
                             Append(added, [idx |-> idx, data |-> frames[idx].data,
                                            width |-> frames[idx].info.width,
                                            height |-> frames[idx].info.height]),
                             frames, encW, encH, reject)

(***************************************************************************)
(* The inputs of the build.                                                *)
(***************************************************************************)
MaxInset == 1

MaxCfgEdits == 1

\* The canvas sizes (width, height) of the camera images.
TargetSizes == {<<20, 20>>, <<16, 20>>}

\* The gray level the camera of device i (1..5) paints its content with.
Tone(i) == 40 * i

\* An encoded image (JPEG or PNG bytes) is held as the description of what it
\* decodes to: w x h pixels, opaque content of one tone, and a transparent band
\* of `inset` pixels along its right and bottom edges; `rotated` once sharp has
\* re-encoded it turned by 180 degrees; not `valid` when sharp cannot parse it.
Encoded(w, h, inset, tone, valid) ==
    [width |-> w, height |-> h, inset |-> inset, tone |-> tone, valid |-> valid,
     rotated |-> FALSE]

\* The raw RGBA raster sharp decodes an encoded image to.
Decode(buf) ==
    LET img == [width |-> buf.width, height |-> buf.height,
                data |-> Raw([k \in 1..(buf.width * buf.height * 4) |->
                                LET x == ((k - 1) \div 4) % buf.width
                                    y == ((k - 1) \div 4) \div buf.width
                                IN  IF x < buf.width - buf.inset
                                       /\ y < buf.height - buf.inset
                                      THEN (IF (k - 1) % 4 = 3 THEN 255 ELSE buf.tone)
                                      ELSE 0],
                             buf.width * buf.height * 4)]
    IN  IF buf.rotated THEN Rotate180(img) ELSE img

\* The states of config.json and the environment the build runs under.
Ambients ==
    { [file |-> NoFile, env |-> NoEnv],
      [file |-> [NoFile EXCEPT !.stabilize = Bool(FALSE), !.cropPercent = Num(0),
                               !.autoBorderDetect = Bool(FALSE),
                               !.frameDelayMs = Num(90)],
       env |-> NoEnv],
      [file |-> [NoFile EXCEPT !.maxShiftPx = Num(8), !.cropPercent = Num(0),
                               !.autoBorderMarginPx = Num(1)],
       env |-> [NoEnv EXCEPT !.FRAME_DELAY_MS = Str("90")]] }

\* The calls: 3, 4 or 5 buffers of one size, at most one of them unparseable,
\* without opts.frameDelayMs; and the calls of 4 parseable buffers with it.
Calls ==
    { [imageBuffers |->
          [i \in 1..n |-> Encoded(size[1], size[2], inset, Tone(i), i # bad)],
       opts |-> [frameDelayMs |-> Undefined]] :
        n \in 3..5, size \in TargetSizes, inset \in 0..MaxInset, bad \in {0, 3} }
      \cup
    { [imageBuffers |->
          [i \in 1..4 |-> Encoded(size[1], size[2], 0, Tone(i), TRUE)],
       opts |-> [frameDelayMs |-> Num(100)]] : size \in TargetSizes }

LocInit ==
    [frameDelayMs |-> 0, targetW |-> 0, targetH |-> 0,
     stabilize |-> FALSE, maxShift |-> 0, cropPercent |-> 0,
     offsets |-> ZeroOffsets, padX |-> 0, padY |-> 0,
     finalCropPx |-> 0, croppedW |-> 0, croppedH |-> 0, i |-> 0,
     encW |-> 0, encH |-> 0, autoBorderDetect |-> FALSE,
     alphaT |-> 0, blackT |-> 0, margin |-> 0,
     \* not locals of the code: the canvas the pad-and-crop stage left, and
     \* whether the auto-border crop was applied
     stabW |-> 0, stabH |-> 0, borderApplied |-> FALSE]

NoOutcome == [kind |-> "pending"]

Thrown(e) == [kind |-> "thrown", error |-> e]

NoSearch == [ref |-> <<>>, b |-> <<>>, maxShift |-> 0]

NoBest == [dx |-> 0, dy |-> 0]

Init ==
    /\ ambient \in Ambients
    /\ cfgEdits = 0
    /\ call \in Calls
    /\ pc = "entry"
    /\ loc = LocInit
    /\ preFramesPng = <<>>
    /\ processedFrames = <<>>
    /\ encoder = <<>>
    /\ outcome = NoOutcome
    /\ effects = {}
    /\ snapshot = Resolve(ambient)
    /\ gray = NoSearch
    /\ best = NoBest
    /\ ListenerOff

(***************************************************************************)
(* buildGifPingPong, one action for each stretch of code between two       *)
(* awaits.                                                                 *)
(***************************************************************************)
\* Line 13 with the test for too many buffers lost.
WrongCountTooFew(imageBuffers) == Len(imageBuffers) < 4

\* Line 13 (the model's calls always pass an array).
WrongCount(imageBuffers) == Len(imageBuffers) # 4

\* Lines 12-19: the argument check, the frame delay, and the metadata reads
\* started.
Entry ==
    /\ pc = "entry"
    /\ IF WrongCount(call.imageBuffers)
         THEN /\ outcome' = Thrown("InputCount")
              /\ pc' = "failed"
              /\ UNCHANGED <<loc, effects>>
         ELSE /\ loc' = [loc EXCEPT !.frameDelayMs =
                            IF call.opts.frameDelayMs = Undefined
                              THEN getFrameDelayMs(ambient)
                              ELSE call.opts.frameDelayMs.v]
              /\ effects' = effects \cup {"metadata"} \cup
                              (IF call.opts.frameDelayMs = Undefined
                                 THEN {"config"} ELSE {})
              /\ pc' = "metas"
              /\ UNCHANGED outcome
    /\ UNCHANGED listenerVars
    /\ UNCHANGED <<ambient, cfgEdits, call, preFramesPng, processedFrames,
                   encoder, snapshot, gray, best>>

\* Lines 19-28: the metadata arrives (sharp rejects a buffer it cannot parse),
\* the target size is the first image's, and the four normalizations start.
Metas ==
    /\ pc = "metas"
    /\ IF \E i \in 1..4 : ~call.imageBuffers[i].valid
         THEN /\ outcome' = Thrown("Decode")
              /\ pc' = "failed"
              /\ UNCHANGED <<loc, effects>>
         ELSE /\ loc' = [loc EXCEPT !.targetW = call.imageBuffers[1].width,
                                    !.targetH = call.imageBuffers[1].height]
              /\ effects' = effects \cup {"decode"}
              /\ pc' = "pre"
              /\ UNCHANGED outcome
    /\ UNCHANGED listenerVars
    /\ UNCHANGED <<ambient, cfgEdits, call, preFramesPng, processedFrames,
                   encoder, snapshot, gray, best>>

\* Lines 107-119 applied to the locals l.
WithCropGeometry(l) ==
    LET f == FinalCropPx(l.targetW, l.targetH, l.cropPercent, l.stabilize,
                         l.padX, l.padY)
        c == CroppedSize(l.targetW, l.targetH, f)
    IN  [l EXCEPT !.finalCropPx = f, !.croppedW = c.w, !.croppedH = c.h, !.i = 0]

\* Lines 24-52 (stabilize) or 24-40 and 107-152 (not): the normalized frames
\* arrive (each image turned by 180 degrees; the resize to the target size
\* leaves an image of that size as it is) and the stabilization parameters
\* are read.
Pre ==
    /\ pc = "pre"
    /\ preFramesPng' = [i \in 0..3 |-> [call.imageBuffers[i + 1] EXCEPT !.rotated = TRUE]]
    /\ effects' = effects \cup {"config"}
    /\ LET l == [loc EXCEPT !.stabilize = getStabilizeEnabled(ambient),
                            !.maxShift = getMaxShiftPx(ambient),
                            !.cropPercent = getCropPercent(ambient)]
       IN  IF l.stabilize
             THEN loc' = l /\ pc' = "gray"
             ELSE loc' = WithCropGeometry(l) /\ pc' = "crop"
    /\ UNCHANGED listenerVars
    /\ UNCHANGED <<ambient, cfgEdits, call, processedFrames, encoder, outcome,
                   snapshot, gray, best>>

\* The offsets the scan of lines 78-89 can end on for a search radius m: see
\* SearchRun, which runs that scan on gray frames small enough to enumerate.
SearchRange(m) == {[dx |-> x, dy |-> y] : x \in (-m)..m, y \in (-m)..m}

\* Lines 52-152: the gray frames arrive; motion search (any offset of the
\* range for each of the frames 1 to 3), scaling, padding and the crop geometry.
Gray ==
    /\ pc = "gray"
    /\ \E found \in [1..3 -> {ScaleOffset(o, loc.targetW, loc.targetH) :
                                o \in SearchRange(loc.maxShift)}] :
         LET offsets == [i \in 0..3 |->
                           IF i = 0
                             THEN ScaleOffset([dx |-> 0, dy |-> 0],
                                              loc.targetW, loc.targetH)
                             ELSE found[i]]
         IN  loc' = WithCropGeometry(
                      [loc EXCEPT !.offsets = offsets,
                                  !.padX = PadX(offsets, loc.maxShift, loc.targetW),
                                  !.padY = PadY(offsets, loc.maxShift, loc.targetW,
                                                loc.targetH)])
    /\ pc' = "crop"
    /\ UNCHANGED listenerVars
    /\ UNCHANGED <<ambient, cfgEdits, call, preFramesPng, processedFrames,
                   encoder, outcome, effects, snapshot, gray, best>>

\* What the encoder library may do to the build: reject the k-th addFrame call
\* (0: none; the first, the fourth and the last are tried), or hand back no
\* bytes from getData().
EncoderFaults ==
    {[reject |-> k, empty |-> FALSE] : k \in {0, 1, 4, Len(order)}}
      \cup {[reject |-> 0, empty |-> TRUE]}

\* Lines 158-248: the auto-border stage on the four processed frames, with the
\* configuration it reads; the locals and the frames it leaves.
BorderStage(l, frames, a) ==
    LET encW == frames[1].info.width
        encH == frames[1].info.height
        detect == getAutoBorderDetect(a)
        alphaT == getAlphaThreshold(a)
        blackT == getBlackThreshold(a)
        margin == getAutoBorderMarginPx(a)
    IN  IF detect
          THEN LET ab == AutoBorder(frames, encW, encH, alphaT, blackT, margin)
               IN  [frames |-> ab.frames,
                    loc |-> [l EXCEPT !.encW = ab.encW, !.encH = ab.encH,
                                      !.stabW = encW, !.stabH = encH,
                                      !.autoBorderDetect = TRUE, !.alphaT = alphaT,
                                      !.blackT = blackT, !.margin = margin,
                                      !.borderApplied = ab.applied]]
          ELSE [frames |-> frames,
                loc |-> [l EXCEPT !.encW = encW, !.encH = encH,
                                  !.stabW = encW, !.stabH = encH,
                                  !.autoBorderDetect = FALSE]]

\* Lines 271-284 with a rejected frame skipped instead of rethrown.
EndingKeepsPartial(enc, l, fault) ==
    IF enc.error \notin {"none", "addFrame"} THEN Thrown("FrameShape")
    ELSE IF fault.empty THEN Thrown("Encode")
    ELSE [kind |-> "returned",
          gif |-> [width |-> l.encW, height |-> l.encH, delay |-> l.frameDelayMs,
                   repeat |-> 0, frames |-> [k \in 1..Len(enc.added) |->
                                               enc.added[k].idx]]]

\* Lines 250-284: what the build ends with once the encoder has been handed
\* `enc.added` and the loop ended with `enc.error`.
Ending(enc, l, fault) ==
    IF enc.error = "addFrame" THEN Thrown("Encode")
    ELSE IF enc.error # "none" THEN Thrown("FrameShape")
    ELSE IF fault.empty THEN Thrown("Encode")
    ELSE [kind |-> "returned",
          gif |-> [width |-> l.encW, height |-> l.encH, delay |-> l.frameDelayMs,
                   repeat |-> 0, frames |-> [k \in 1..Len(enc.added) |->
                                               enc.added[k].idx]]]

\* Lines 158-284, which run without an await once the fourth frame is there.
Finish(frames) ==
    \E st \in {BorderStage(loc, frames, ambient)}, fault \in EncoderFaults :
        \E enc \in {EncodeFrom(1, <<>>, [i \in 0..3 |-> st.frames[i + 1]],
                               st.loc.encW, st.loc.encH, fault.reject)} :
            /\ loc' = st.loc
            /\ processedFrames' = st.frames
            /\ encoder' = enc.added
            /\ effects' = effects \cup {"config", "encoder"}
            /\ outcome' = Ending(enc, st.loc, fault)
            /\ pc' = IF outcome'.kind = "returned" THEN "done" ELSE "failed"

\* Lines 150-155, and 158-284 after the fourth frame: stabilizeAndCrop of frame
\* loc.i resolves (sharp may reject the extract area, or hand back an empty
\* buffer).
Crop ==
    /\ pc = "crop"
    /\ \E i \in {loc.i} :
       \E res \in {stabilizeAndCrop(Decode(preFramesPng[i]), loc.offsets[i].dx,
                                    loc.offsets[i].dy, loc)} :
           IF ~res.ok
             THEN /\ outcome' = Thrown("Extract")
                  /\ pc' = "failed"
                  /\ UNCHANGED <<loc, processedFrames, encoder, effects>>
             ELSE \/ /\ outcome' = Thrown("Stabilization")   \* !data.length
                     /\ pc' = "failed"
                     /\ UNCHANGED <<loc, processedFrames, encoder, effects>>
                  \/ /\ i < 3
                     /\ processedFrames' =
                          Append(processedFrames, [data |-> res.data, info |-> res.info])
                     /\ loc' = [loc EXCEPT !.i = i + 1]
                     /\ UNCHANGED <<pc, encoder, outcome, effects>>
                  \/ /\ i = 3
                     /\ Finish(Append(processedFrames,
                                      [data |-> res.data, info |-> res.info]))
    /\ UNCHANGED listenerVars
    /\ UNCHANGED <<ambient, cfgEdits, call, preFramesPng, snapshot, gray, best>>

\* config.json is rewritten, or the environment changed, while the build is
\* suspended at an await.
ConfigChange ==
    /\ pc \in {"metas", "pre", "gray", "crop"}
    /\ cfgEdits < MaxCfgEdits
    /\ ambient' \in Ambients \ {ambient}
    /\ cfgEdits' = cfgEdits + 1
    /\ UNCHANGED listenerVars
    /\ UNCHANGED <<call, pc, loc, preFramesPng, processedFrames, encoder,
                   outcome, effects, snapshot, gray, best>>

Next == Entry \/ Metas \/ Pre \/ Gray \/ Crop \/ ConfigChange

Spec == Init /\ [][Next]_vars

(***************************************************************************)
(* Motion search (buildGifPingPong, lines 53-89) on gray frames            *)
(* [w, h, data], one byte a pixel.  A score is a mean, kept as the         *)
(* quotient [num, den], or Number.POSITIVE_INFINITY.                       *)
(***************************************************************************)
Infinity == [inf |-> TRUE]

\* s < t of two scores
Less(s, t) == ~s.inf /\ (t.inf \/ s.num * t.den < t.num * s.den)

\* Lines 64-74: the sum of |a - b| over the n pixels of the overlap, which is
\* cols pixels wide, taken row by row from (x0, y0).
RECURSIVE SumAbs(_, _, _, _, _, _, _, _)
SumAbs(a, b, dx, dy, x0, y0, cols, n) ==
    IF n = 0 THEN 0
    ELSE LET y == y0 + ((n - 1) \div cols)
             x == x0 + ((n - 1) % cols)
         IN  Abs(At(a.data, y * a.w + x) - At(b.data, (y - dy) * b.w + (x - dx)))
               + SumAbs(a, b, dx, dy, x0, y0, cols, n - 1)

\* Lines 54-76: sadAt, with marginX and marginY taken from the reference a.
sadAt(a, b, dx, dy) ==
    LET marginX == Floor(a.w, 10)
        marginY == Floor(a.h, 10)
        x0 == Max(marginX, marginX + dx)
        y0 == Max(marginY, marginY + dy)
        x1 == Min(a.w - marginX, b.w - marginX + dx)
        y1 == Min(a.h - marginY, b.h - marginY + dy)
    IN  IF x1 <= x0 \/ y1 <= y0 THEN Infinity
        ELSE [inf |-> FALSE,
              num |-> SumAbs(a, b, dx, dy, x0, y0, x1 - x0, (x1 - x0) * (y1 - y0)),
              den |-> (x1 - x0) * (y1 - y0)]

\* Lines 81-82 with the inner loop running one step too far.
CandidatesOneTooFar(maxShift) ==
    [n \in 1..((2 * maxShift + 1) * (2 * maxShift + 2)) |->
        [dx |-> ((n - 1) % (2 * maxShift + 2)) - maxShift,
         dy |-> ((n - 1) \div (2 * maxShift + 2)) - maxShift]]

\* Lines 81-82 with the loops exchanged: dx in the outer loop.
CandidatesDxOuter(maxShift) ==
    [n \in 1..((2 * maxShift + 1) * (2 * maxShift + 1)) |->
        [dx |-> ((n - 1) \div (2 * maxShift + 1)) - maxShift,
         dy |-> ((n - 1) % (2 * maxShift + 1)) - maxShift]]

\* Lines 81-82: the candidates in the order the loops visit them, dy in the
\* outer loop and dx in the inner loop, both ascending.
Candidates(maxShift) ==
    [n \in 1..((2 * maxShift + 1) * (2 * maxShift + 1)) |->
        [dx |-> ((n - 1) % (2 * maxShift + 1)) - maxShift,
         dy |-> ((n - 1) \div (2 * maxShift + 1)) - maxShift]]

\* Lines 79-86: the scan from candidate n on, `found` being the best so far.
RECURSIVE Scan(_, _, _, _, _)
Scan(a, b, cands, n, found) ==
    IF n > Len(cands) THEN found
    ELSE LET s == sadAt(a, b, cands[n].dx, cands[n].dy)
         IN  Scan(a, b, cands, n + 1,
                  IF Less(s, found.score)
                    THEN [dx |-> cands[n].dx, dy |-> cands[n].dy, score |-> s]
                    ELSE found)

\* Lines 79-87: the offset chosen for the frame b against the reference a.
MotionSearch(a, b, maxShift) ==
    LET found == Scan(a, b, Raw(Candidates(maxShift), Len(Candidates(maxShift))), 1,
                      [dx |-> 0, dy |-> 0, score |-> Infinity])
    IN  [dx |-> found.dx, dy |-> found.dy]

MaxSearchShift == 2

\* The sizes (w, h) of the gray frames searched.
GrayDims == {<<1, 1>>, <<2, 1>>, <<1, 2>>, <<2, 2>>, <<3, 2>>, <<10, 1>>, <<11, 2>>}

\* The gray frames of w x h: every frame of black and white pixels when there
\* are at most six pixels, and otherwise the black frame and the frames with
\* one white pixel.
GrayFrames(w, h) ==
    IF w * h <= 6
      THEN {[w |-> w, h |-> h, data |-> d] : d \in [1..(w * h) -> {0, 255}]}
      ELSE {[w |-> w, h |-> h,
             data |-> [k \in 1..(w * h) |-> IF k = p THEN 255 ELSE 0]] :
               p \in 0..(w * h)}

InitSearch ==
    /\ ambient = [file |-> NoFile, env |-> NoEnv]
    /\ cfgEdits = 0
    /\ call = [imageBuffers |-> <<>>, opts |-> [frameDelayMs |-> Undefined]]
    /\ pc = "search"
    /\ loc = LocInit
    /\ preFramesPng = <<>>
    /\ processedFrames = <<>>
    /\ encoder = <<>>
    /\ outcome = NoOutcome
    /\ effects = {}
    /\ snapshot = Resolve(ambient)
    /\ \E dim \in GrayDims :
         \E a \in GrayFrames(dim[1], dim[2]), b \in GrayFrames(dim[1], dim[2]) :
           \E m \in 0..MaxSearchShift :
             gray = [ref |-> a, b |-> b, maxShift |-> m]
    /\ best = NoBest
    /\ ListenerOff

\* Lines 78-89 for one frame b against the reference.
SearchRun ==
    /\ pc = "search"
    /\ best' = MotionSearch(gray.ref, gray.b, gray.maxShift)
    /\ pc' = "searched"
    /\ UNCHANGED listenerVars
    /\ UNCHANGED <<ambient, cfgEdits, call, loc, preFramesPng, processedFrames,
                   encoder, outcome, effects, snapshot, gray>>

SpecSearch == InitSearch /\ [][SearchRun]_vars

\* C6: the offset the motion search chooses for a frame lies within the search
\* radius on both axes, whatever the two gray frames hold.
C6_OffsetWithinRadius ==
    pc = "searched" => Abs(best.dx) <= gray.maxShift /\ Abs(best.dy) <= gray.maxShift

\* A search that ended on the far corner of the range although the candidates
\* next to it on both axes have an empty overlap or a worse score.
C6_Witness ==
    /\ pc = "searched"
    /\ gray.maxShift >= 1
    /\ best.dx = gray.maxShift /\ best.dy = -gray.maxShift
    /\ sadAt(gray.ref, gray.b, 0, 0).inf = FALSE

\* The score of the candidate offset c for the searched pair of frames.
ScoreOf(c) == sadAt(gray.ref, gray.b, c.dx, c.dy)

\* c is visited before d: dy ascending in the outer loop, dx ascending in the
\* inner loop.
VisitedBefore(c, d) == c.dy < d.dy \/ (c.dy = d.dy /\ c.dx < d.dx)

\* C14: the offset chosen is, among the candidates of [-maxShift, maxShift]^2
\* with the least score, the one the scan visits first (dy ascending outside,
\* dx ascending inside); it is fixed by the two gray frames and maxShift.
C14_FirstMinimumInScanOrder ==
    pc = "searched" =>
        /\ best \in SearchRange(gray.maxShift)
        /\ \A c \in SearchRange(gray.maxShift) :
             /\ ~Less(ScoreOf(c), ScoreOf(best))
             /\ (~Less(ScoreOf(best), ScoreOf(c)) /\ c # best) => VisitedBefore(best, c)

\* A search with a tie: a candidate visited later has the same finite score
\* as the offset chosen, which is not the zero offset.
C14_Witness ==
    /\ pc = "searched"
    /\ best # NoBest
    /\ ~ScoreOf(best).inf
    /\ \E c \in SearchRange(gray.maxShift) :
         /\ c # best
         /\ ~Less(ScoreOf(best), ScoreOf(c))
         /\ ~Less(ScoreOf(c), ScoreOf(best))

(***************************************************************************)
(* The stabilization geometry on its own: the step Gray from every target  *)
(* size, search radius and crop percentage of GeomInputs, stabilization    *)
(* enabled.                                                                *)
(***************************************************************************)
MaxGeomDim == 24

\* Target sizes, search radii and crop percentages (in hundredths).
GeomInputs ==
    {[targetW |-> w, targetH |-> h, maxShift |-> m, cropPercent |-> c] :
        w \in MinCropSize..MaxGeomDim, h \in MinCropSize..MaxGeomDim,
        m \in {0, 6, 8}, c \in {0, 5, 30}}
      \cup
    {[targetW |-> 640, targetH |-> h, maxShift |-> 1, cropPercent |-> c] :
        h \in {480, 60, 20}, c \in {0, 5, 30}}

\* The state Pre leaves when stabilization is on, for a config.json that sets
\* maxShiftPx and cropPercent.
InitGeom ==
    /\ \E g \in GeomInputs :
         /\ ambient = [file |-> [NoFile EXCEPT !.maxShiftPx = Num(g.maxShift),
                                               !.cropPercent = Num(g.cropPercent)],
                       env |-> NoEnv]
         /\ loc = [LocInit EXCEPT !.frameDelayMs = getFrameDelayMs(ambient),
                                  !.targetW = g.targetW, !.targetH = g.targetH,
                                  !.stabilize = getStabilizeEnabled(ambient),
                                  !.maxShift = getMaxShiftPx(ambient),
                                  !.cropPercent = getCropPercent(ambient)]
    /\ cfgEdits = 0
    /\ call = [imageBuffers |-> <<>>, opts |-> [frameDelayMs |-> Undefined]]
    /\ pc = "gray"
    /\ preFramesPng = <<>>
    /\ processedFrames = <<>>
    /\ encoder = <<>>
    /\ outcome = NoOutcome
    /\ effects = {"metadata", "decode", "config"}
    /\ snapshot = Resolve(ambient)
    /\ gray = NoSearch
    /\ best = NoBest
    /\ ListenerOff

SpecGeom == InitGeom /\ [][Gray]_vars

\* The extract rectangle of stabilizeAndCrop lies inside the extended canvas
\* of frame i.
InsideExtended(l, i) ==
    LET e == Extents(l.padX, l.padY, l.offsets[i].dx, l.offsets[i].dy)
    IN  ExtractFits(l.targetW + e.left + e.right, l.targetH + e.top + e.bottom,
                    l.finalCropPx, l.finalCropPx, l.croppedW, l.croppedH)

\* C5: with stabilization enabled, once the geometry is computed the extract
\* rectangle at (finalCropPx, finalCropPx) of croppedW x croppedH lies inside
\* the extended canvas of each of the four frames.
C5_ExtractInsideExtended ==
    (pc = "crop" /\ loc.stabilize) => \A i \in 0..3 : InsideExtended(loc, i)

\* The same for the geometries whose cropped size is not raised to the minimum.
C5_InsideWhenNotClamped ==
    (/\ pc = "crop" /\ loc.stabilize
     /\ loc.targetW - 2 * loc.finalCropPx >= MinCropSize
     /\ loc.targetH - 2 * loc.finalCropPx >= MinCropSize)
        => \A i \in 0..3 : InsideExtended(loc, i)

(***************************************************************************)
(* The auto-border stage on its own: BorderStage on four processed frames  *)
(* of one canvas, each a rectangle of content inside a border.             *)
(***************************************************************************)
MaxBorderShift == 1

\* The widths a border of a frame has.
BorderWidths == {0, 1, 5}

\* What a border pixel holds: fully transparent, opaque black, or a bright
\* pixel at the alpha threshold.
BorderPixels == {<<0, 0, 0, 0>>, <<0, 0, 0, 255>>, <<200, 200, 200, 8>>}

\* A processed frame of w x h: content of `tone` inside borders of l, t, r and
\* b pixels (clipped at 0) filled with the pixel `fill`.
Framed(w, h, l, t, r, b, tone, fill) ==
    [data |-> Raw([k \in 1..(w * h * 4) |->
                     LET x == ((k - 1) \div 4) % w
                         y == ((k - 1) \div 4) \div w
                     IN  IF x >= l /\ x <= w - 1 - r /\ y >= t /\ y <= h - 1 - b
                           THEN (IF (k - 1) % 4 = 3 THEN 255 ELSE tone)
                           ELSE fill[((k - 1) % 4) + 1]],
                  w * h * 4),
     info |-> [width |-> w, height |-> h, channels |-> 4]]

\* The configurations the stage runs under: the defaults, a margin of 1,
\* detection switched off, and thresholds of 0.
BorderAmbients ==
    { [file |-> NoFile, env |-> NoEnv],
      [file |-> [NoFile EXCEPT !.autoBorderMarginPx = Num(1)], env |-> NoEnv],
      [file |-> NoFile, env |-> [NoEnv EXCEPT !.AUTO_BORDER_DETECT = Str("false")]],
      [file |-> [NoFile EXCEPT !.alphaThreshold = Num(0), !.blackThreshold = Num(0)],
       env |-> NoEnv] }

\* The canvas the pad-and-crop stage left.
BorderCanvas == [w |-> 18, h |-> 20]

\* The borders of a frame: left and top from BorderWidths, right and bottom
\* either none or as wide as the opposite side.
BorderInsets ==
    {ins \in [l : BorderWidths, t : BorderWidths, r : BorderWidths, b : BorderWidths] :
        ins.r \in {0, ins.l} /\ ins.b \in {0, ins.t}}

\* What frame 3 is next to frames 0 to 2: the same content shifted by
\* (sx, sy), or no content at all.
BorderMotions ==
    {[blank |-> FALSE, sx |-> sx, sy |-> sy] :
        sx \in (-MaxBorderShift)..MaxBorderShift,
        sy \in (-MaxBorderShift)..MaxBorderShift}
    \cup {[blank |-> TRUE, sx |-> 0, sy |-> 0]}

BorderScenes ==
    {[i \in 1..4 |->
        IF i < 4
          THEN Framed(BorderCanvas.w, BorderCanvas.h, ins.l, ins.t, ins.r, ins.b,
                      Tone(i), fill)
        ELSE IF mo.blank
          THEN Framed(BorderCanvas.w, BorderCanvas.h, BorderCanvas.w, BorderCanvas.h,
                      0, 0, Tone(i), fill)
        ELSE Framed(BorderCanvas.w, BorderCanvas.h,
                    Max(0, ins.l + mo.sx), Max(0, ins.t + mo.sy),
                    Max(0, ins.r - mo.sx), Max(0, ins.b - mo.sy), Tone(i), fill)] :
        ins \in BorderInsets, mo \in BorderMotions, fill \in BorderPixels}

InitBorder ==
    /\ ambient \in BorderAmbients
    /\ cfgEdits = 0
    /\ call = [imageBuffers |-> <<>>, opts |-> [frameDelayMs |-> Undefined]]
    /\ pc = "border"
    /\ loc = [LocInit EXCEPT !.frameDelayMs = 120, !.i = 3]
    /\ preFramesPng = <<>>
    /\ processedFrames \in BorderScenes
    /\ encoder = <<>>
    /\ outcome = NoOutcome
    /\ effects = {"metadata", "decode", "config"}
    /\ snapshot = Resolve(ambient)
    /\ gray = NoSearch
    /\ best = NoBest
    /\ ListenerOff

\* Lines 158-248.
BorderRun ==
    /\ pc = "border"
    /\ \E st \in {BorderStage(loc, processedFrames, ambient)} :
         /\ loc' = st.loc
         /\ processedFrames' = st.frames
    /\ pc' = "bordered"
    /\ UNCHANGED listenerVars
    /\ UNCHANGED <<ambient, cfgEdits, call, preFramesPng, encoder, outcome,
                   effects, snapshot, gray, best>>

SpecBorder == InitBorder /\ [][BorderRun]_vars

(***************************************************************************)
(* The configuration getters on their own (src/config.js): one key of      *)
(* config.json and its environment variable take every modelled value,     *)
(* next to a file and environment that set the other keys or leave them.   *)
(***************************************************************************)
\* What config.json may hold under a key.
FileValues ==
    {Undefined, Null, Num(-1), Num(0), Num(4), Num(20), Num(60), Num(300),
     Str("8"), Str("abc"), Bool(TRUE), Bool(FALSE)}

\* What process.env may hold under a name.
EnvValues ==
    {Undefined, Str(""), Str("0"), Str("1"), Str("6"), Str("60"), Str("abc"),
     Str("true"), Str("false")}

\* A file and an environment that set every key to a value the getters accept.
FullFile ==
    [frameDelayMs |-> Num(90), stabilize |-> Bool(FALSE), maxShiftPx |-> Num(8),
     cropPercent |-> Num(20), autoBorderDetect |-> Bool(FALSE),
     alphaThreshold |-> Num(4), blackThreshold |-> Num(20),
     autoBorderMarginPx |-> Num(1)]

FullEnv ==
    [FRAME_DELAY_MS |-> Str("60"), STABILIZE |-> Str("0"), MAX_SHIFT_PX |-> Str("4"),
     CROP_PERCENT |-> Str("1"), AUTO_BORDER_DETECT |-> Str("false"),
     ALPHA_THRESHOLD |-> Str("1"), BLACK_THRESHOLD |-> Str("6"),
     AUTO_BORDER_MARGIN_PX |-> Str("4")]

InitConfig ==
    /\ \E key \in DOMAIN NoFile, name \in DOMAIN NoEnv,
          file \in {NoFile, FullFile}, env \in {NoEnv, FullEnv},
          fv \in FileValues, ev \in EnvValues :
         ambient = [file |-> [file EXCEPT ![key] = fv],
                    env |-> [env EXCEPT ![name] = ev]]
    /\ cfgEdits = 0
    /\ call = [imageBuffers |-> <<>>, opts |-> [frameDelayMs |-> Undefined]]
    /\ pc = "config"
    /\ loc = LocInit
    /\ preFramesPng = <<>>
    /\ processedFrames = <<>>
    /\ encoder = <<>>
    /\ outcome = NoOutcome
    /\ effects = {}
    /\ snapshot = Resolve([file |-> NoFile, env |-> NoEnv])
    /\ gray = NoSearch
    /\ best = NoBest
    /\ ListenerOff

\* Every getter called on one state of config.json and the environment.
ResolveRun ==
    /\ pc = "config"
    /\ snapshot' = Resolve(ambient)
    /\ effects' = effects \cup {"config"}
    /\ pc' = "resolved"
    /\ UNCHANGED listenerVars
    /\ UNCHANGED <<ambient, cfgEdits, call, loc, preFramesPng, processedFrames,
                   encoder, outcome, gray, best>>

SpecConfig == InitConfig /\ [][ResolveRun]_vars

(***************************************************************************)
(* The listener (index.js): capture records arrive as realtime create      *)
(* events, are collected into groups by creation time and device, and a    *)
(* group is built when complete or logged as timed out by the sweep.       *)
(* Times are in ticks; the creation time of a record stands for its ISO    *)
(* string as well, which new Date(...).toISOString() and getTime() carry   *)
(* over unchanged at millisecond precision.  A JavaScript Map is the       *)
(* sequence of its entries [key, value] in insertion order.                *)
(***************************************************************************)
DEVICES == <<"esp32s3cam-01", "esp32s3cam-02", "esp32s3cam-03", "esp32s3cam-04">>

\* Line 13, in ticks.
TIMEOUT_MS == 1

MaxEvents == 4

MaxNow == 2

\* How many ticks after its creation the event of a late record is delivered.
MaxDelay == 1

MapHas(m, k) == \E i \in 1..Len(m) : m[i].key = k

MapGet(m, k) == m[CHOOSE i \in 1..Len(m) : m[i].key = k].value

MapSet(m, k, v) ==
    IF MapHas(m, k)
      THEN [i \in 1..Len(m) |-> IF m[i].key = k THEN [key |-> k, value |-> v] ELSE m[i]]
      ELSE Append(m, [key |-> k, value |-> v])

MapDelete(m, k) == SelectSeq(m, LAMBDA e : e.key # k)

MapKeys(m) == [i \in 1..Len(m) |-> m[i].key]

MapValues(m) == [i \in 1..Len(m) |-> m[i].value]

\* Lines 38-43 and 71-76: a fresh group anchored at the record rec, at time t.
NewGroup(rec, t) ==
    [firstTs |-> rec.created, deadline |-> t + TIMEOUT_MS,
     recordsByDevice |-> <<>>, order |-> <<>>]

ensureGroup(gs, key, firstRecord, t) ==
    IF ~MapHas(gs, key) THEN MapSet(gs, key, NewGroup(firstRecord, t)) ELSE gs

\* findAssignableGroup returns null when no group takes the record.
NoKey == -1

\* Lines 48-60: the first group, in insertion order, whose window holds
\* rec.created and which has no record of the device yet.
findAssignableGroup(gs, rec) ==
    LET hits == {i \in 1..Len(gs) :
                   /\ rec.created >= gs[i].value.firstTs
                   /\ rec.created <= gs[i].value.firstTs + TIMEOUT_MS
                   /\ ~MapHas(gs[i].value.recordsByDevice, rec.device_id)}
    IN  IF hits = {} THEN NoKey ELSE gs[Least(hits, 0)].key

withinWindow(group, t) == t <= group.deadline

isComplete(group) ==
    \A i \in 1..Len(DEVICES) : MapHas(group.recordsByDevice, DEVICES[i])

\* Lines 62-82: the Map of groups after the record is assigned at time t, and
\* the key of its group.
assignToGroup(gs, rec, t) ==
    LET found == findAssignableGroup(gs, rec)
        key == IF found = NoKey THEN rec.created ELSE found
        gs1 == IF found = NoKey THEN ensureGroup(gs, key, rec, t) ELSE gs
        gs2 == IF ~withinWindow(MapGet(gs1, key), t)
                 THEN MapSet(gs1, key, NewGroup(rec, t))
                 ELSE gs1
        g == MapGet(gs2, key)
        g2 == [g EXCEPT
                 !.recordsByDevice = MapSet(@, rec.device_id, rec),
                 !.order = IF \E i \in 1..Len(@) : @[i] = rec.device_id
                             THEN @ ELSE Append(@, rec.device_id)]
    IN  [key |-> key, groups |-> MapSet(gs2, key, g2)]

\* Lines 109-117.
TimeoutEntry(group) ==
    [timestamp_group |-> group.firstTs,
     record_ids |-> [i \in 1..Len(group.recordsByDevice) |->
                       group.recordsByDevice[i].value.id],
     device_ids |-> MapKeys(group.recordsByDevice),
     status |-> "timeout"]

\* Lines 104-123: the groups left and the entries logged by a sweep at time t.
finalizeTimeouts(gs, t) ==
    LET expired == SelectSeq(gs, LAMBDA e : t > e.value.deadline /\ ~isComplete(e.value))
    IN  [groups |-> SelectSeq(gs, LAMBDA e : ~(t > e.value.deadline /\ ~isComplete(e.value))),
         entries |-> [i \in 1..Len(expired) |-> TimeoutEntry(expired[i].value)]]

\* Lines 179-185 and 196-206: the entry logged when a build ends.
BuildEntry(b, status) ==
    [timestamp_group |-> b.ts,
     record_ids |-> [i \in 1..Len(b.orderedRecords) |-> b.orderedRecords[i].id],
     device_ids |-> DEVICES,
     status |-> status]

\* Line 134 with the records taken in the order they arrived.
orderedRecordsByArrival(group) ==
    [i \in 1..Len(group.order) |-> MapGet(group.recordsByDevice, group.order[i])]

\* Line 134.
orderedRecords(group) ==
    [i \in 1..Len(DEVICES) |-> MapGet(group.recordsByDevice, DEVICES[i])]

\* Lines 126-137 and 157-160 without the delete of line 132.
tryProcessGroupKeepsGroup(gs, key) ==
    IF ~MapHas(gs, key) \/ ~isComplete(MapGet(gs, key))
      THEN [groups |-> gs, builds |-> {}]
      ELSE [groups |-> gs,
            builds |-> {[key |-> key, ts |-> MapGet(gs, key).firstTs,
                         orderedRecords |-> orderedRecords(MapGet(gs, key)),
                         bufs |-> <<>>, stage |-> "fetch"]}]

\* Lines 126-137 and 157-160: tryProcessGroup up to its first await.
tryProcessGroup(gs, key) ==
    IF ~MapHas(gs, key) \/ ~isComplete(MapGet(gs, key))
      THEN [groups |-> gs, builds |-> {}]
      ELSE [groups |-> MapDelete(gs, key),
            builds |-> {[key |-> key, ts |-> MapGet(gs, key).firstTs,
                         orderedRecords |-> orderedRecords(MapGet(gs, key)),
                         bufs |-> <<>>, stage |-> "fetch"]}]

InitListener ==
    /\ ambient = [file |-> NoFile, env |-> NoEnv]
    /\ cfgEdits = 0
    /\ call = [imageBuffers |-> <<>>, opts |-> [frameDelayMs |-> Undefined]]
    /\ pc = "listening"
    /\ loc = LocInit
    /\ preFramesPng = <<>>
    /\ processedFrames = <<>>
    /\ encoder = <<>>
    /\ outcome = NoOutcome
    /\ effects = {}
    /\ snapshot = Resolve(ambient)
    /\ gray = NoSearch
    /\ best = NoBest
    /\ ListenerOff

\* Lines 233-247: the handler of a create event for a record of one of the
\* four cameras, up to its first await; the record was created just now or
\* MaxDelay ticks ago.
OnCreate ==
    /\ events < MaxEvents
    /\ \E d \in 1..Len(DEVICES), age \in {0, MaxDelay} :
         /\ now - age >= 0
         /\ \E rec \in {[id |-> events + 1, device_id |-> DEVICES[d], created |-> now - age]} :
              \E a \in {assignToGroup(groups, rec, now)} :
                \E p \in {tryProcessGroup(a.groups, a.key)} :
                   /\ groups' = p.groups
                   /\ builds' = builds \cup p.builds
                   /\ received' = received \cup {rec}
    /\ events' = events + 1
    /\ UNCHANGED <<now, results, started>>
    /\ UNCHANGED builderVars

\* Lines 234 and 238: an event that is no create, or of another device.
OnOtherEvent ==
    /\ UNCHANGED listenerVars
    /\ UNCHANGED builderVars

\* Lines 188-208: the build b ends in the catch block.
Failed(b) ==
    /\ builds' = builds \ {b}
    /\ results' = Append(results, BuildEntry(b, "error"))
    /\ UNCHANGED started

\* Lines 159-168: a fetch of the build b settles; after the fourth buffer
\* buildGifPingPong is called with the four buffers.
FetchSettles ==
    /\ \E b \in builds, ok \in BOOLEAN :
         /\ b.stage = "fetch"
         /\ IF ~ok THEN Failed(b)
            ELSE LET bufs == Append(b.bufs, b.orderedRecords[Len(b.bufs) + 1])
                 IN  /\ builds' = (builds \ {b}) \cup
                           {[b EXCEPT !.bufs = bufs,
                                      !.stage = IF Len(bufs) = 4 THEN "build" ELSE "fetch"]}
                     /\ started' = IF Len(bufs) = 4
                                     THEN Append(started, [key |-> b.key, bufs |-> bufs])
                                     ELSE started
                     /\ UNCHANGED results
    /\ UNCHANGED <<now, groups, events, received>>
    /\ UNCHANGED builderVars

\* Lines 168-175: buildGifPingPong settles.
BuildSettles ==
    /\ \E b \in builds, ok \in BOOLEAN :
         /\ b.stage = "build"
         /\ IF ~ok THEN Failed(b)
            ELSE /\ builds' = (builds \ {b}) \cup {[b EXCEPT !.stage = "upload"]}
                 /\ UNCHANGED <<results, started>>
    /\ UNCHANGED <<now, groups, events, received>>
    /\ UNCHANGED builderVars

\* Lines 175-187: uploadGifRecord settles.
UploadSettles ==
    /\ \E b \in builds, ok \in BOOLEAN :
         /\ b.stage = "upload"
         /\ IF ~ok THEN Failed(b)
            ELSE /\ builds' = builds \ {b}
                 /\ results' = Append(results, BuildEntry(b, "created"))
                 /\ UNCHANGED started
    /\ UNCHANGED <<now, groups, events, received>>
    /\ UNCHANGED builderVars

\* Lines 212-214 and 104-123: the interval timer runs finalizeTimeouts.
Sweep ==
    /\ \E f \in {finalizeTimeouts(groups, now)} :
         /\ groups' = f.groups
         /\ results' = results \o f.entries
    /\ UNCHANGED <<now, builds, events, received, started>>
    /\ UNCHANGED builderVars

\* Time passes.
Tick ==
    /\ now < MaxNow
    /\ now' = now + 1
    /\ UNCHANGED <<groups, builds, results, events, received, started>>
    /\ UNCHANGED builderVars

NextListener ==
    OnCreate \/ OnOtherEvent \/ FetchSettles \/ BuildSettles \/ UploadSettles
      \/ Sweep \/ Tick

SpecListener == InitListener /\ [][NextListener]_vars

(***************************************************************************)
(* Properties of the listener (specification SpecListener).               *)
(***************************************************************************)

\* The record ids a sequence of records holds.
IdsOf(recs) == {recs[i].id : i \in 1..Len(recs)}

\* The ids of the records the groups hold.
GroupedIds ==
    UNION {IdsOf(MapValues(groups[i].value.recordsByDevice)) : i \in 1..Len(groups)}

\* The ids of the records of the builds in flight.
InFlightIds == UNION {IdsOf(b.orderedRecords) : b \in builds}

\* The ids the log entries of the given statuses list.
LoggedIds(statuses) ==
    UNION {{results[i].record_ids[j] : j \in 1..Len(results[i].record_ids)} :
             i \in {k \in 1..Len(results) : results[k].status \in statuses}}

\* C13: no received capture record leaves the grouping state without a log
\* entry of status created, error or timeout that lists it: every record
\* received is held by a group, belongs to a build in flight, or is listed in
\* a log entry.
C13_NoRecordLostUnlogged ==
    \A rec \in received :
        \/ rec.id \in GroupedIds
        \/ rec.id \in InFlightIds
        \/ rec.id \in LoggedIds({"created", "error", "timeout"})

\* The log entries that end a build.
BuildEntries == {i \in 1..Len(results) : results[i].status \in {"created", "error"}}

EntryIds(i) == {results[i].record_ids[j] : j \in 1..Len(results[i].record_ids)}

\* No complete group is stored, no record of a build is still grouped, no two
\* builds and no two calls of buildGifPingPong share a record, no record has
\* two build entries or a build entry while its build is in flight, and no
\* record of a build is listed in a timeout entry.
BuiltOnceState ==
    /\ \A i \in 1..Len(groups) : ~isComplete(groups[i].value)
    /\ InFlightIds \cap GroupedIds = {}
    /\ \A b, c \in builds : b # c => IdsOf(b.orderedRecords) \cap IdsOf(c.orderedRecords) = {}
    /\ \A i, j \in 1..Len(started) : i # j => IdsOf(started[i].bufs) \cap IdsOf(started[j].bufs) = {}
    /\ \A i, j \in BuildEntries : i # j => EntryIds(i) \cap EntryIds(j) = {}
    /\ \A i \in BuildEntries : EntryIds(i) \cap InFlightIds = {}
    /\ LoggedIds({"timeout"}) \cap (InFlightIds \cup LoggedIds({"created", "error"})) = {}

\* A step logs a created or error entry exactly for each build that ends in
\* it, with the records of that build, and for nothing else.
BuiltOnceStep ==
    LET ended == builds \ {b \in builds : \E c \in builds' : c.orderedRecords = b.orderedRecords}
        logged == {i \in 1..Len(results') :
                     i > Len(results) /\ results'[i].status \in {"created", "error"}}
    IN  /\ Len(results') >= Len(results)
        /\ SubSeq(results', 1, Len(results)) = results
        /\ Cardinality(ended) = Cardinality(logged)
        /\ \A b \in ended :
              \E i \in logged :
                 results'[i].record_ids =
                   [k \in 1..Len(b.orderedRecords) |-> b.orderedRecords[k].id]

DeviceOrderState ==
    /\ \A g \in 1..Len(groups) :
          LET m == groups[g].value.recordsByDevice
          IN  /\ \A i, j \in 1..Len(m) : m[i].key = m[j].key => i = j
              /\ \A i \in 1..Len(m) : m[i].value.device_id = m[i].key
    /\ \A b \in builds :
          /\ Len(b.orderedRecords) = Len(DEVICES)
          /\ \A i \in 1..Len(DEVICES) : b.orderedRecords[i].device_id = DEVICES[i]
          /\ b.bufs = SubSeq(b.orderedRecords, 1, Len(b.bufs))
    /\ \A k \in 1..Len(started) :
          /\ Len(started[k].bufs) = Len(DEVICES)
          /\ \A i \in 1..Len(DEVICES) :
                /\ started[k].bufs[i].device_id = DEVICES[i]
                /\ started[k].bufs[i] \in received

\* The records of a build that begins in a step are, device by device, the
\* arriving record or the one its group stored for the device; a call of
\* buildGifPingPong made in a step passes the records of a build in flight.
DeviceOrderStep ==
    /\ \A c \in builds' :
          (\A b \in builds : b.orderedRecords # c.orderedRecords) =>
             /\ MapHas(groups, c.key)
             /\ \A i \in 1..Len(DEVICES) :
                   \/ c.orderedRecords[i] \in received' \ received
                   \/ /\ MapHas(MapGet(groups, c.key).recordsByDevice, DEVICES[i])
                      /\ c.orderedRecords[i] =
                           MapGet(MapGet(groups, c.key).recordsByDevice, DEVICES[i])
    /\ \A k \in 1..Len(started') :
          k > Len(started) =>
             \E b \in builds : b.key = started'[k].key
                                 /\ b.orderedRecords = started'[k].bufs

NumericKeys ==
    { [key |-> "frameDelayMs", env |-> "FRAME_DELAY_MS", field |-> "frameDelayMs",
       lo |-> 1, hi |-> 1, def |-> 120],
      [key |-> "maxShiftPx", env |-> "MAX_SHIFT_PX", field |-> "maxShift",
       lo |-> 0, hi |-> 50, def |-> 6],
      [key |-> "cropPercent", env |-> "CROP_PERCENT", field |-> "cropPercent",
       lo |-> 0, hi |-> 30, def |-> 5],
      [key |-> "alphaThreshold", env |-> "ALPHA_THRESHOLD", field |-> "alphaT",
       lo |-> 0, hi |-> 255, def |-> 8],
      [key |-> "blackThreshold", env |-> "BLACK_THRESHOLD", field |-> "blackT",
       lo |-> 0, hi |-> 255, def |-> 8],
      [key |-> "autoBorderMarginPx", env |-> "AUTO_BORDER_MARGIN_PX", field |-> "margin",
       lo |-> 0, hi |-> 20, def |-> 0] }

\* The switches, with their default.
BooleanKeys ==
    { [key |-> "stabilize", env |-> "STABILIZE", field |-> "stabilize", def |-> TRUE],
      [key |-> "autoBorderDetect", env |-> "AUTO_BORDER_DETECT",
       field |-> "autoBorderDetect", def |-> TRUE] }

\* A supplied value is valid for a numeric key when it reads as a number of
\* the key's range (for frameDelayMs: as a number above 0).
ValidFor(k, x) ==
    /\ ~Number(x).nan
    /\ Number(x).v >= k.lo
    /\ (k.key = "frameDelayMs" \/ Number(x).v <= k.hi)

\* C11: every key resolves to the value of config.json when the file supplies
\* a valid one, whatever the environment holds; otherwise to the value of the
\* environment variable when that is valid; otherwise to the built-in default
\* (120, true, 6, 0.05, true, 8, 8, 0).
C11_FileThenEnvThenDefault ==
    pc = "resolved" =>
        /\ \A k \in NumericKeys :
             snapshot[k.field] =
                IF ValidFor(k, ambient.file[k.key]) THEN Number(ambient.file[k.key]).v
                ELSE IF ValidFor(k, ambient.env[k.env]) THEN Number(ambient.env[k.env]).v
                ELSE k.def
        /\ \A k \in BooleanKeys :
             snapshot[k.field] =
                IF ambient.file[k.key] \in {Bool(TRUE), Bool(FALSE)}
                  THEN ambient.file[k.key].v
                ELSE IF ambient.env[k.env] \in {Str("0"), Str("false")} THEN FALSE
                ELSE IF ambient.env[k.env] \in {Str("1"), Str("true")} THEN TRUE
                ELSE k.def

\* The file's maxShiftPx has won over a different valid MAX_SHIFT_PX.
C11_Witness ==
    /\ pc = "resolved"
    /\ ambient.file.maxShiftPx = Num(20)
    /\ ambient.env.MAX_SHIFT_PX = Str("6")
    /\ snapshot.maxShift = 20

\* C12: maxShiftPx, cropPercent and autoBorderMarginPx resolve into their
\* ranges (0 to 50, 0 to 0.30, 0 to 20), a number configured in config.json
\* outside the range resolving to the nearest end of the range.
C12_ClampedToRange ==
    pc = "resolved" =>
        \A k \in {n \in NumericKeys :
                    n.key \in {"maxShiftPx", "cropPercent", "autoBorderMarginPx"}} :
            /\ snapshot[k.field] >= k.lo
            /\ snapshot[k.field] <= k.hi
            /\ ambient.file[k.key].t = "number" =>
                 snapshot[k.field] = Max(k.lo, Min(k.hi, ambient.file[k.key].v))

\* The part of C12 that holds: the resolved values lie in their ranges.
C12_InsideRange ==
    pc = "resolved" =>
        \A k \in {n \in NumericKeys :
                    n.key \in {"maxShiftPx", "cropPercent", "autoBorderMarginPx"}} :
            snapshot[k.field] >= k.lo /\ snapshot[k.field] <= k.hi

(***************************************************************************)
(* Properties of the auto-border stage (specification SpecBorder).         *)
(***************************************************************************)
\* Whether pixel (x, y) of a frame counts as content under the thresholds.
ContentAt(frame, x, y, alphaT, blackT) ==
    LET i == (y * frame.info.width + x) * 4
    IN  /\ frame.data[i + 4] > alphaT
        /\ \E c \in 1..3 : frame.data[i + c] > blackT

\* The columns and rows that lie, in every frame, at least `margin` inside the
\* span from its first to its last column (row) with content.
SafeBox(frames, alphaT, blackT, margin) ==
    LET w == frames[1].info.width
        h == frames[1].info.height
        firstCol == [i \in DOMAIN frames |->
                       Least({x \in 0..(w - 1) :
                                \E y \in 0..(h - 1) :
                                    ContentAt(frames[i], x, y, alphaT, blackT)}, w)]
        lastCol == [i \in DOMAIN frames |->
                      Greatest({x \in 0..(w - 1) :
                                  \E y \in 0..(h - 1) :
                                      ContentAt(frames[i], x, y, alphaT, blackT)}, -1)]
        firstRow == [i \in DOMAIN frames |->
                       Least({y \in 0..(h - 1) :
                                \E x \in 0..(w - 1) :
                                    ContentAt(frames[i], x, y, alphaT, blackT)}, h)]
        lastRow == [i \in DOMAIN frames |->
                      Greatest({y \in 0..(h - 1) :
                                  \E x \in 0..(w - 1) :
                                      ContentAt(frames[i], x, y, alphaT, blackT)}, -1)]
        left == MaxOver(firstCol)
        right == -MaxOver([i \in DOMAIN frames |-> -lastCol[i]])
        top == MaxOver(firstRow)
        bottom == -MaxOver([i \in DOMAIN frames |-> -lastRow[i]])
    IN  [found |-> left <= right /\ top <= bottom,
         w |-> (right - margin) - (left + margin) + 1,
         h |-> (bottom - margin) - (top + margin) + 1]

\* C8: the auto-border stage never leaves a canvas larger than the one it
\* was given; it replaces the frames only when detection is on and the common
\* content box is at least 8x8 and smaller than the canvas, and the new frames
\* then all have the size of that box; in every other case (box equal to the
\* canvas, box below 8x8, no content found, detection off) the four frames and
\* the canvas size stay as they were.
C8_BorderCropOnlyShrinks ==
    [][(pc = "border" /\ pc' = "bordered") =>
        \E bx \in {SafeBox(processedFrames, getAlphaThreshold(ambient),
                           getBlackThreshold(ambient),
                           getAutoBorderMarginPx(ambient))} :
            LET w == processedFrames[1].info.width
                h == processedFrames[1].info.height
                replaced == processedFrames' # processedFrames
                eligible == /\ getAutoBorderDetect(ambient)
                            /\ bx.found
                            /\ bx.w >= MinBorderSize
                            /\ bx.h >= MinBorderSize
                            /\ (bx.w < w \/ bx.h < h)
            IN  /\ loc'.encW <= w
                /\ loc'.encH <= h
                /\ replaced =>
                     /\ eligible
                     /\ loc'.encW = bx.w
                     /\ loc'.encH = bx.h
                     /\ \A i \in 1..4 :
                          /\ processedFrames'[i].info.width = bx.w
                          /\ processedFrames'[i].info.height = bx.h
                          /\ Len(processedFrames'[i].data) = bx.w * bx.h * 4
                /\ ~eligible =>
                     /\ ~replaced
                     /\ loc'.encW = w
                     /\ loc'.encH = h]_vars

\* The stage has cropped the four frames to a smaller canvas of at least 8x8.
C8_Witness ==
    /\ pc = "bordered"
    /\ loc.borderApplied
    /\ loc.encW < loc.stabW
    /\ loc.encH < loc.stabH
    /\ loc.encW >= MinBorderSize
    /\ loc.encH >= MinBorderSize
    /\ \A i \in 1..4 : processedFrames[i].info.width = loc.encW

\* Every frame has a border of exactly b pixels with alpha 0 on each edge,
\* and content on the innermost row and column next to each side of it.
UniformBorder(frames, b, alphaT, blackT) ==
    LET w == frames[1].info.width
        h == frames[1].info.height
    IN  \A i \in DOMAIN frames :
            /\ \A x \in 0..(w - 1), y \in 0..(h - 1) :
                 (x < b \/ x > w - 1 - b \/ y < b \/ y > h - 1 - b)
                     => frames[i].data[(y * w + x) * 4 + 4] = 0
            /\ \E y \in b..(h - 1 - b) : ContentAt(frames[i], b, y, alphaT, blackT)
            /\ \E y \in b..(h - 1 - b) : ContentAt(frames[i], w - 1 - b, y, alphaT, blackT)
            /\ \E x \in b..(w - 1 - b) : ContentAt(frames[i], x, b, alphaT, blackT)
            /\ \E x \in b..(w - 1 - b) : ContentAt(frames[i], x, h - 1 - b, alphaT, blackT)

\* C9: with detection on, margin 0 and alpha threshold 8, four frames that
\* carry the same border of b fully transparent pixels on every edge around
\* content reaching the inner edge of the border are cropped by exactly b
\* pixels per edge (width and height shrink by 2b, each frame becomes its
\* inner rectangle), provided the result is at least 8x8.
C9_UniformBorderRemoved ==
    [][(/\ pc = "border" /\ pc' = "bordered"
        /\ getAutoBorderDetect(ambient)
        /\ getAutoBorderMarginPx(ambient) = 0
        /\ getAlphaThreshold(ambient) = 8) =>
        LET w == processedFrames[1].info.width
            h == processedFrames[1].info.height
        IN  \A b \in 1..(Min(w, h) \div 2) :
                (/\ w - 2 * b >= MinBorderSize
                 /\ h - 2 * b >= MinBorderSize
                 /\ UniformBorder(processedFrames, b, 8, getBlackThreshold(ambient)))
                => /\ loc'.encW = w - 2 * b
                   /\ loc'.encH = h - 2 * b
                   /\ \A i \in 1..4 :
                        LET inner == Extract([width |-> w, height |-> h,
                                              data |-> processedFrames[i].data],
                                             b, b, w - 2 * b, h - 2 * b)
                        IN  /\ processedFrames'[i].data = inner.data
                            /\ processedFrames'[i].info.width = w - 2 * b
                            /\ processedFrames'[i].info.height = h - 2 * b]_vars

\* A border of 5 pixels has been cropped from each edge under margin 0 and
\* alpha threshold 8, and the content now touches all four edges.
C9_Witness ==
    /\ pc = "bordered"
    /\ loc.borderApplied
    /\ loc.margin = 0
    /\ loc.alphaT = 8
    /\ loc.encW = loc.stabW - 10
    /\ loc.encH = loc.stabH - 10
    /\ \A i \in 1..4 :
         /\ ContentAt(processedFrames[i], 0, 0, 8, loc.blackT)
         /\ ContentAt(processedFrames[i], loc.encW - 1, loc.encH - 1, 8, loc.blackT)

\* The first and last column and row of a frame that hold a content pixel.
ContentSpan(frame, alphaT, blackT) ==
    LET w == frame.info.width
        h == frame.info.height
    IN  [left |-> Least({x \in 0..(w - 1) :
                           \E y \in 0..(h - 1) : ContentAt(frame, x, y, alphaT, blackT)}, w),
         right |-> Greatest({x \in 0..(w - 1) :
                           \E y \in 0..(h - 1) : ContentAt(frame, x, y, alphaT, blackT)}, -1),
         top |-> Least({y \in 0..(h - 1) :
                           \E x \in 0..(w - 1) : ContentAt(frame, x, y, alphaT, blackT)}, h),
         bottom |-> Greatest({y \in 0..(h - 1) :
                           \E x \in 0..(w - 1) : ContentAt(frame, x, y, alphaT, blackT)}, -1)]

\* C15: when the auto-border crop is applied, the four frames are cropped to
\* one rectangle; its left and top are at least each frame's first content
\* column and row, its right and bottom at most each frame's last content
\* column and row; every source row range copied lies inside the source
\* buffer, so each new frame is that rectangle of the old one.
C15_CropRectInsideEveryFrame ==
    [][(pc = "border" /\ pc' = "bordered" /\ processedFrames' # processedFrames) =>
        \E r \in {AutoBorder(processedFrames, processedFrames[1].info.width,
                             processedFrames[1].info.height,
                             getAlphaThreshold(ambient), getBlackThreshold(ambient),
                             getAutoBorderMarginPx(ambient)).rect} :
            LET w == processedFrames[1].info.width
                h == processedFrames[1].info.height
            IN  /\ r.cropW = r.rightI - r.leftI + 1
                /\ r.cropH = r.bottomI - r.topI + 1
                /\ \A i \in 1..4 :
                     \E cs \in {ContentSpan(processedFrames[i], getAlphaThreshold(ambient),
                                            getBlackThreshold(ambient))} :
                        /\ r.leftI >= cs.left
                        /\ r.topI >= cs.top
                        /\ r.rightI <= cs.right
                        /\ r.bottomI <= cs.bottom
                        /\ \A y \in 0..(r.cropH - 1) :
                             LET srcStart == ((r.topI + y) * w + r.leftI) * 4
                             IN  srcStart >= 0
                                 /\ srcStart + r.cropW * 4 <= Len(processedFrames[i].data)
                        /\ processedFrames'[i].data =
                             Extract([width |-> w, height |-> h,
                                      data |-> processedFrames[i].data],
                                     r.leftI, r.topI, r.cropW, r.cropH).data]_vars

\* The crop has been applied under a margin of 1 and has removed more than
\* the margin in both directions.
C15_Witness ==
    /\ pc = "bordered"
    /\ loc.borderApplied
    /\ loc.margin = 1
    /\ loc.encW < loc.stabW - 2
    /\ loc.encH < loc.stabH - 2

(***************************************************************************)
(* Properties of the build (specification Spec).                           *)
(***************************************************************************)
Terminal == pc \in {"done", "failed"}

\* C1: a call with any number of buffers other than 4 fails with the input
\* count error, and has by then read no metadata, decoded nothing, read no
\* configuration and taken no encoder step.
C1_InputCountBeforeWork ==
    (Len(call.imageBuffers) # 4 /\ pc # "entry") =>
        /\ pc = "failed"
        /\ outcome = Thrown("InputCount")
        /\ effects = {}
        /\ preFramesPng = <<>> /\ processedFrames = <<>> /\ encoder = <<>>
        /\ loc = LocInit

C1_Witness ==
    Len(call.imageBuffers) = 5 /\ pc = "failed" /\ outcome = Thrown("InputCount")

\* The tones of the opaque pixels of a raw RGBA buffer.
TonesOf(data) ==
    {data[k] : k \in {j \in 1..Len(data) : (j - 1) % 4 = 0 /\ data[j + 3] # 0}}

\* C2: on a successful build the encoder was handed exactly six frames: the
\* processed frames of the input buffers 1, 2, 3, 4, 3, 2 in this order, each
\* carrying the content of that input buffer.
C2_PingPongOrder ==
    pc = "done" =>
        /\ Len(encoder) = 6
        /\ outcome.gif.frames = <<0, 1, 2, 3, 2, 1>>
        /\ \A k \in 1..6 :
             LET src == <<1, 2, 3, 4, 3, 2>>[k]
             IN  /\ encoder[k].data = processedFrames[src].data
                 /\ TonesOf(encoder[k].data) = {call.imageBuffers[src].tone}

C2_Witness ==
    /\ pc = "done" /\ loc.stabilize /\ loc.borderApplied
    /\ \E i \in 1..3 : loc.offsets[i].dx # 0

\* C3: an invocation returns nothing before it ends; it ends either returning
\* an animation of all six frames or throwing, in which case nothing is
\* returned whatever the encoder had been handed; and a build that has not
\* ended stands at one of its awaits, the crop loop on a frame 0 to 3.
C3_AllOrNothing ==
    /\ outcome.kind = "returned" =>
          /\ pc = "done"
          /\ Len(encoder) = 6
          /\ outcome.gif.frames = <<0, 1, 2, 3, 2, 1>>
    /\ outcome.kind = "thrown" => pc = "failed"
    /\ Terminal <=> outcome.kind # "pending"
    /\ ~Terminal =>
          /\ pc \in {"entry", "metas", "pre", "gray", "crop"}
          /\ pc = "crop" => loc.i \in 0..3 /\ Len(processedFrames) = loc.i

C3_Witness ==
    pc = "failed" /\ outcome = Thrown("Encode") /\ Len(encoder) = 3

\* C4: every frame handed to the encoder has the width and height of the
\* encoder's canvas and width * height * 4 bytes, the four processed frames
\* never fail the shape check, and the animation returned has that canvas.
C4_EncodedFramesShareCanvas ==
    /\ \A k \in 1..Len(encoder) :
          /\ encoder[k].width = loc.encW
          /\ encoder[k].height = loc.encH
          /\ Len(encoder[k].data) = loc.encW * loc.encH * 4
    /\ outcome # Thrown("FrameShape")
    /\ pc = "done" => outcome.gif.width = loc.encW /\ outcome.gif.height = loc.encH

C4_Witness ==
    pc = "done" /\ loc.borderApplied /\ Len(encoder) = 6 /\ loc.encW < loc.stabW

\* C7: on a successful build the canvas the pad-and-crop stage left is at least
\* 16 x 16 and the canvas after the auto-border stage is at least 8 x 8.
C7_MinimumCanvas ==
    pc = "done" =>
        /\ loc.stabW >= 16 /\ loc.stabH >= 16
        /\ loc.encW >= 8 /\ loc.encH >= 8
        /\ \A i \in 1..4 : processedFrames[i].info.width = loc.encW
                        /\ processedFrames[i].info.height = loc.encH

\* A successful build whose cropped size was raised to the minimum.
C7_Witness ==
    /\ pc = "done"
    /\ loc.targetW - 2 * loc.finalCropPx < 16
    /\ loc.stabW = 16

\* C10: every configuration value a finished build used is the value the file
\* and environment resolved to when the build was called.
C10_OneSnapshot ==
    pc = "done" =>
        /\ loc.frameDelayMs = (IF call.opts.frameDelayMs = Undefined
                                 THEN snapshot.frameDelayMs
                                 ELSE call.opts.frameDelayMs.v)
        /\ loc.stabilize = snapshot.stabilize
        /\ loc.maxShift = snapshot.maxShift
        /\ loc.cropPercent = snapshot.cropPercent
        /\ loc.autoBorderDetect = snapshot.autoBorderDetect
        /\ loc.autoBorderDetect =>
              /\ loc.alphaT = snapshot.alphaT
              /\ loc.blackT = snapshot.blackT
              /\ loc.margin = snapshot.margin

=============================================================================
